---- MODULE Spec2Model ----
(***************************************************************************)
(* Model of exprtk_rs (src/src/exprtk.rs): SymbolTable, Expression,        *)
(* Parser and StringValue, the safe facade over the ExprTk engine.         *)
(*                                                                         *)
(* Cells live in a heap addressed by natural numbers (raw pointers); 0 is  *)
(* the null pointer.  A table is a record: the handle sym of the engine's  *)
(* table with its stores, and the Rust-side vectors values / strings /     *)
(* vectors.                                                                *)
(* The engine (exprtk_sys) is the symbol_table_*, parser_*, Eng* and       *)
(* expression_value operators.                                             *)
(***************************************************************************)
EXTENDS Integers, Sequences, FiniteSets, TLC

VARIABLES tab, heap, phase, expr, ret, ids, hist, tab2, expr2, ops

vars == <<tab, heap, phase, expr, ret, ids, hist, tab2, expr2, ops>>

(* ---------------- bounds and input sets ---------------- *)
MaxOps == 4
MaxSlots == 3

ValidNames == {"a", "b"}
BadName == "1x"
\* a name or a text with an interior NUL character
NulName == "a\\0"
Names == ValidNames \cup {BadName}
AllNames == Names \cup {NulName}
ConstNames == {"a", BadName}
FuncNames == {"b", BadName}
Vals == {0, 1}
StrInputs == {<<1>>, <<1, 0, 1>>}
InitVals == {1}
InitStrs == {<<1, 0, 1>>}
\* what the calls on a clone write
CloneVals == {0}
CloneStrs == {<<1>>}
VecInputs == {<<1>>}
Texts == {<<"a">>, <<"b", "a", "b">>, <<"a", "1x">>, <<NulName>>}
Kinds == {"var", "str", "vec"}

Null == 0
NoId == -1

(* ---------------- small helpers ---------------- *)
RECURSIVE SumSeq(_)
SumSeq(s) == IF s = <<>> THEN 0 ELSE Head(s) + SumSeq(Tail(s))

\* slice::iter().position(): 0-based index of the first element equal to x
Position(s, x) ==
    IF \E k \in 1..Len(s) : s[k] = x
    THEN (CHOOSE k \in 1..Len(s) : s[k] = x /\ \A j \in 1..(k - 1) : s[j] # x) - 1
    ELSE NoId

Reverse(s) == [k \in 1..Len(s) |-> s[Len(s) + 1 - k]]

Pop(s) == SubSeq(s, 1, Len(s) - 1)

Drop(f, S) == [x \in (DOMAIN f) \ S |-> f[x]]

Range(s) == {s[k] : k \in 1..Len(s)}

Res(tag, val) == [tag |-> tag, val |-> val]

\* CStr::from_ptr(..).to_bytes(): the bytes before the first NUL
RECURSIVE CStrBytes(_)
CStrBytes(s) ==
    IF s = <<>> \/ Head(s) = 0 THEN <<>> ELSE <<Head(s)>> \o CStrBytes(Tail(s))

\* c_string!: CString::new(s).unwrap() panics on an interior NUL
c_string(s) == IF s = NulName THEN Res("panic", NoId) ELSE Res("ok", NoId)

(* ---------------- the heap ---------------- *)
EmptyHeap == [num |-> <<>>, str |-> <<>>, vec |-> <<>>, next |-> 1]

AllocNum(h, v) == [h EXCEPT !.num = (h.next :> v) @@ @, !.next = @ + 1]
AllocStr(h, s) == [h EXCEPT !.str = (h.next :> s) @@ @, !.next = @ + 1]
AllocVec(h, v) == [h EXCEPT !.vec = (h.next :> v) @@ @, !.next = @ + 1]

\* the allocator takes back the address of the cell allocated last, once it
\* has been freed (nothing refers to it)
Release(h) == [h EXCEPT !.next = @ - 1]

(* ---------------- StringValue ---------------- *)
StringValue_new(h, bytes) == AllocStr(h, bytes)
StringValue_set(h, ptr, bytes) == [h EXCEPT !.str[ptr] = bytes]
StringValue_get(h, ptr) == CStrBytes(h.str[ptr])
StringValue_drop(h, ptrs) == [h EXCEPT !.str = Drop(@, ptrs)]

(* ---------------- the engine's symbol table ---------------- *)
\* no table: what is left of a table that was moved out or dropped
NoTable ==
    [sym |-> Null,
     vstore |-> [n \in ValidNames |-> Null], consts |-> {},
     sstore |-> [n \in ValidNames |-> Null],
     vecstore |-> [n \in ValidNames |-> Null],
     fstore |-> {},
     values |-> <<>>, strings |-> <<>>, vectors |-> <<>>, funcs |-> 0]

\* SymbolTable::new: sym is the handle of a new, empty engine table
SymbolTable_new(h) ==
    [t |-> [NoTable EXCEPT !.sym = h.next], h |-> [h EXCEPT !.next = @ + 1]]

EngValidSymbol(n) == n \in ValidNames

symbol_table_symbol_exists(t, n) ==
    /\ n \in ValidNames
    /\ \/ t.vstore[n] # Null
       \/ t.sstore[n] # Null
       \/ t.vecstore[n] # Null
       \/ n \in t.fstore

EngCanAdd(t, n) == EngValidSymbol(n) /\ ~symbol_table_symbol_exists(t, n)

\* symbol_table_create_variable: the engine allocates the scalar cell
symbol_table_create_variable(t, h, n, v) ==
    IF EngCanAdd(t, n)
    THEN [t |-> [t EXCEPT !.vstore[n] = h.next], h |-> AllocNum(h, v), rv |-> TRUE]
    ELSE [t |-> t, h |-> h, rv |-> FALSE]

\* symbol_table_add_constant: a constant is a read-only entry of the variable store
symbol_table_add_constant(t, h, n, v) ==
    IF EngCanAdd(t, n)
    THEN [t |-> [t EXCEPT !.vstore[n] = h.next, !.consts = @ \cup {n}],
          h |-> AllocNum(h, v), rv |-> TRUE]
    ELSE [t |-> t, h |-> h, rv |-> FALSE]

symbol_table_variable_ref(t, n) == IF n \in ValidNames THEN t.vstore[n] ELSE Null
symbol_table_stringvar_ref(t, n) == IF n \in ValidNames THEN t.sstore[n] ELSE Null
symbol_table_vector_ptr(t, n) == IF n \in ValidNames THEN t.vecstore[n] ELSE Null

symbol_table_add_stringvar(t, n, ptr) ==
    IF EngCanAdd(t, n)
    THEN [t |-> [t EXCEPT !.sstore[n] = ptr], rv |-> TRUE]
    ELSE [t |-> t, rv |-> FALSE]

symbol_table_add_vector(t, n, ptr) ==
    IF EngCanAdd(t, n)
    THEN [t |-> [t EXCEPT !.vecstore[n] = ptr], rv |-> TRUE]
    ELSE [t |-> t, rv |-> FALSE]

symbol_table_add_func(t, n) ==
    IF EngCanAdd(t, n)
    THEN [t |-> [t EXCEPT !.fstore = @ \cup {n}], rv |-> TRUE]
    ELSE [t |-> t, rv |-> FALSE]

symbol_table_get_variable_list(t) == {n \in ValidNames : t.vstore[n] # Null}
symbol_table_get_stringvar_list(t) == {n \in ValidNames : t.sstore[n] # Null}
symbol_table_get_vector_list(t) == {n \in ValidNames : t.vecstore[n] # Null}

(* ---------------- SymbolTable (src/src/exprtk.rs) ---------------- *)
symbol_exists(t, n) == symbol_table_symbol_exists(t, n)

\* validate_added: Some(out) / None (already present) / InvalidName
validate_added(t, name, result, out) ==
    IF ~result
    THEN IF symbol_exists(t, name) THEN Res("None", NoId) ELSE Res("InvalidName", NoId)
    ELSE Res("Some", out)

add_constant(t, h, name, val) ==
    LET e == symbol_table_add_constant(t, h, name, val)
        added == validate_added(e.t, name, e.rv, 0)
    IN  IF c_string(name).tag = "panic" THEN [t |-> t, h |-> h, r |-> c_string(name)]
        ELSE [t |-> e.t, h |-> e.h,
              r |-> IF added.tag = "InvalidName" THEN added
                    ELSE Res(IF added.tag = "Some" THEN "true" ELSE "false", NoId)]

add_variable(t, h, name, val) ==
    LET i == Len(t.values)
        e == symbol_table_create_variable(t, h, name, val)
        res == validate_added(e.t, name, e.rv, i)
    IN  IF c_string(name).tag = "panic" THEN [t |-> t, h |-> h, r |-> c_string(name)]
        ELSE IF res.tag = "InvalidName"
        THEN [t |-> e.t, h |-> e.h, r |-> res]
        ELSE [t |-> [e.t EXCEPT !.values = Append(@, symbol_table_variable_ref(e.t, name))],
              h |-> e.h, r |-> res]

\* mut_value with its range check one short: the last slot is not found
mut_value_short(t, var_id) ==
    IF var_id + 1 \in 1..(Len(t.values) - 1)
    THEN IF t.values[var_id + 1] = Null THEN Res("panic", NoId)
         ELSE Res("Some", t.values[var_id + 1])
    ELSE Res("None", NoId)

\* mut_value / value: None out of range, panic ("null pointer!") on a null slot
mut_value(t, var_id) ==
    IF var_id + 1 \in 1..Len(t.values)
    THEN IF t.values[var_id + 1] = Null THEN Res("panic", NoId)
         ELSE Res("Some", t.values[var_id + 1])
    ELSE Res("None", NoId)

value(t, h, var_id) ==
    LET m == mut_value(t, var_id)
    IN  IF m.tag = "Some" THEN Res("Some", h.num[m.val]) ELSE m

set_value(t, h, var_id, val) ==
    LET m == mut_value(t, var_id)
    IN  IF m.tag = "Some"
        THEN [t |-> t, h |-> [h EXCEPT !.num[m.val] = val], r |-> Res("true", NoId)]
        ELSE [t |-> t, h |-> h,
              r |-> IF m.tag = "panic" THEN m ELSE Res("false", NoId)]

add_stringvar(t, h, name, text) ==
    LET i == Len(t.strings)
        h1 == StringValue_new(h, text)
        ptr == h.next
        t1 == [t EXCEPT !.strings = Append(@, ptr)]
        e == symbol_table_add_stringvar(t1, name, ptr)
        res == validate_added(e.t, name, e.rv, i)
    IN  IF c_string(name).tag = "panic" THEN [t |-> t1, h |-> h1, r |-> c_string(name)]
        ELSE IF res.tag = "InvalidName"
        THEN [t |-> [e.t EXCEPT !.strings = Pop(@)],
              h |-> Release(StringValue_drop(h1, {ptr})), r |-> res]
        ELSE [t |-> e.t, h |-> h1, r |-> res]

mut_string(t, var_id) ==
    IF var_id + 1 \in 1..Len(t.strings)
    THEN Res("Some", t.strings[var_id + 1])
    ELSE Res("None", NoId)

\* string(id).get(): the bytes a caller reads, or <<-1>> for None
string_get(t, h, var_id) ==
    LET m == mut_string(t, var_id)
    IN  IF m.tag = "Some" THEN StringValue_get(h, m.val) ELSE <<NoId>>

set_string(t, h, var_id, text) ==
    LET m == mut_string(t, var_id)
    IN  IF m.tag = "Some"
        THEN [t |-> t, h |-> StringValue_set(h, m.val, text), r |-> Res("true", NoId)]
        ELSE [t |-> t, h |-> h, r |-> Res("false", NoId)]

add_vector(t, h, name, vec) ==
    LET i == Len(t.vectors)
        h1 == AllocVec(h, vec)
        ptr == h.next
        t1 == [t EXCEPT !.vectors = Append(@, ptr)]
        e == symbol_table_add_vector(t1, name, ptr)
        res == validate_added(e.t, name, e.rv, i)
    IN  IF c_string(name).tag = "panic" THEN [t |-> t1, h |-> h1, r |-> c_string(name)]
        ELSE IF res.tag = "InvalidName"
        THEN [t |-> [e.t EXCEPT !.vectors = Pop(@)],
              h |-> Release([h1 EXCEPT !.vec = Drop(@, {ptr})]), r |-> res]
        ELSE [t |-> e.t, h |-> h1, r |-> res]

mut_vector(t, var_id) ==
    IF var_id + 1 \in 1..Len(t.vectors)
    THEN Res("Some", t.vectors[var_id + 1])
    ELSE Res("None", NoId)

\* vector(id): the slice a caller reads, or <<-1>> for None
vector(t, h, var_id) ==
    LET m == mut_vector(t, var_id)
    IN  IF m.tag = "Some" THEN h.vec[m.val] ELSE <<NoId>>

\* mut_vector(id) followed by a write of element k (0-based) of the slice
write_vector(t, h, var_id, k, val) ==
    LET m == mut_vector(t, var_id)
    IN  IF m.tag = "Some" /\ k + 1 \in 1..Len(h.vec[m.val])
        THEN [t |-> t, h |-> [h EXCEPT !.vec[m.val][k + 1] = val], r |-> Res("true", NoId)]
        ELSE [t |-> t, h |-> h, r |-> Res("false", NoId)]

\* add_func1..4: the boxed wrapper is pushed to funcs before validation
add_func(t, h, name) ==
    LET e == symbol_table_add_func(t, name)
        t1 == [e.t EXCEPT !.funcs = @ + 1]
        res == validate_added(t1, name, e.rv, 0)
    IN  IF c_string(name).tag = "panic" THEN [t |-> t, h |-> h, r |-> c_string(name)]
        ELSE [t |-> t1, h |-> h,
              r |-> IF res.tag = "InvalidName" THEN res
                    ELSE Res(IF res.tag = "Some" THEN "true" ELSE "false", NoId)]

get_var_ptr(t, name) == symbol_table_variable_ref(t, name)

\* get_var_id searching from the back (rposition)
get_var_id_last(t, name) ==
    IF get_var_ptr(t, name) = Null THEN NoId
    ELSE Len(t.values) - 1 - Position(Reverse(t.values), get_var_ptr(t, name))

get_var_id(t, name) ==
    IF get_var_ptr(t, name) = Null THEN NoId ELSE Position(t.values, get_var_ptr(t, name))

get_string_id(t, name) ==
    IF symbol_table_stringvar_ref(t, name) = Null THEN NoId
    ELSE Position(t.strings, symbol_table_stringvar_ref(t, name))

get_vec_id(t, name) ==
    IF symbol_table_vector_ptr(t, name) = Null THEN NoId
    ELSE Position(t.vectors, symbol_table_vector_ptr(t, name))

\* clear_variables that leaves the Rust vector values as it is
clear_variables_keep(t, h) ==
    [t |-> [t EXCEPT !.vstore = [n \in ValidNames |-> Null], !.consts = {}],
     h |-> [h EXCEPT !.num = Drop(@, {t.vstore[n] : n \in ValidNames})],
     r |-> Res("unit", NoId)]

\* clear_*: the Rust vector is emptied, the engine drops every node of the kind
clear_variables(t, h) ==
    [t |-> [t EXCEPT !.values = <<>>, !.vstore = [n \in ValidNames |-> Null], !.consts = {}],
     h |-> [h EXCEPT !.num = Drop(@, {t.vstore[n] : n \in ValidNames})],
     r |-> Res("unit", NoId)]

clear_strings(t, h) ==
    [t |-> [t EXCEPT !.strings = <<>>, !.sstore = [n \in ValidNames |-> Null]],
     h |-> StringValue_drop(h, Range(t.strings)),
     r |-> Res("unit", NoId)]

clear_vectors(t, h) ==
    [t |-> [t EXCEPT !.vectors = <<>>, !.vecstore = [n \in ValidNames |-> Null]],
     h |-> [h EXCEPT !.vec = Drop(@, Range(t.vectors))],
     r |-> Res("unit", NoId)]

variable_count(t) == Cardinality(symbol_table_get_variable_list(t))
stringvar_count(t) == Cardinality(symbol_table_get_stringvar_list(t))
vector_count(t) == Cardinality(symbol_table_get_vector_list(t))

is_constant_node(t, name) == name \in t.consts

\* Drop for SymbolTable: every cell the table owns is released
SymbolTable_drop(t, h) ==
    [h EXCEPT !.num = Drop(@, {t.vstore[n] : n \in ValidNames}),
              !.str = Drop(@, Range(t.strings)),
              !.vec = Drop(@, Range(t.vectors))]

(* ---------------- Parser: the engine's compile primitives ---------------- *)
\* what the compiled form holds for identifier n: a folded literal for a
\* constant, otherwise a pointer to the cell of n
EngRef(t, h, n) ==
    IF n \in t.consts THEN [kind |-> "lit", at |-> h.num[t.vstore[n]]]
    ELSE IF t.vstore[n] # Null THEN [kind |-> "var", at |-> t.vstore[n]]
    ELSE IF t.sstore[n] # Null THEN [kind |-> "str", at |-> t.sstore[n]]
    ELSE IF t.vecstore[n] # Null THEN [kind |-> "vec", at |-> t.vecstore[n]]
    ELSE [kind |-> "func", at |-> Null]

\* parser_compile: fails on a malformed token or an unknown identifier
parser_compile(t, h, text) ==
    IF \A k \in 1..Len(text) : symbol_table_symbol_exists(t, text[k])
    THEN [ok |-> TRUE, compiled |-> [k \in 1..Len(text) |-> EngRef(t, h, text[k])]]
    ELSE [ok |-> FALSE, compiled |-> <<>>]

\* parser_compile_resolve: unknown identifiers are created as variables of
\* value 0, left to right, and reported in that order
RECURSIVE EngResolve(_, _, _, _)
EngResolve(t, h, toks, names) ==
    IF toks = <<>> THEN [t |-> t, h |-> h, ok |-> TRUE, names |-> names]
    ELSE IF ~EngValidSymbol(Head(toks)) THEN [t |-> t, h |-> h, ok |-> FALSE, names |-> names]
    ELSE IF symbol_table_symbol_exists(t, Head(toks)) THEN EngResolve(t, h, Tail(toks), names)
    ELSE LET e == symbol_table_create_variable(t, h, Head(toks), 0)
         IN  EngResolve(e.t, e.h, Tail(toks), Append(names, Head(toks)))

parser_compile_resolve(t, h, text) ==
    LET r == EngResolve(t, h, text, <<>>)
    IN  IF r.ok
        THEN [t |-> r.t, h |-> r.h, ok |-> TRUE, names |-> r.names,
              compiled |-> [k \in 1..Len(text) |-> EngRef(r.t, r.h, text[k])]]
        ELSE [t |-> r.t, h |-> r.h, ok |-> FALSE, names |-> <<>>, compiled |-> <<>>]

\* expression_value: every referenced cell is read; a released cell is
\* undefined behaviour (Undef)
Undef == -1

RefLive(h, ref) ==
    CASE ref.kind = "var" -> ref.at \in DOMAIN h.num
      [] ref.kind = "str" -> ref.at \in DOMAIN h.str
      [] ref.kind = "vec" -> ref.at \in DOMAIN h.vec
      [] OTHER -> TRUE

RefValue(h, ref) ==
    CASE ref.kind = "var" -> h.num[ref.at]
      [] ref.kind = "str" -> Len(h.str[ref.at]) + SumSeq(h.str[ref.at])
      [] ref.kind = "vec" -> SumSeq(h.vec[ref.at])
      [] ref.kind = "lit" -> ref.at
      [] OTHER -> 0

expression_value(compiled, h) ==
    IF \A k \in 1..Len(compiled) : RefLive(h, compiled[k])
    THEN SumSeq([k \in 1..Len(compiled) |-> RefValue(h, compiled[k])])
    ELSE Undef

\* parser_error: the engine's error record; an error is pending after a
\* compile that failed
parser_error(ok) == [is_err |-> ~ok]

(* ---------------- Parser (src/src/exprtk.rs) ---------------- *)
\* the engine calls a Parser makes, in order
ParserCall(f, rv) == [call |-> f, rv |-> rv]

\* get_err: the ParseError, or a panic when the record holds no error
get_err(e) == IF e.is_err THEN Res("ParseError", NoId) ELSE Res("panic", NoId)

\* what a finished compile hands back: [tag, t, h, names, compiled, calls]
Compiled(tag, c, names, calls) ==
    [tag |-> tag, t |-> c.t, h |-> c.h, names |-> names,
     compiled |-> IF tag = "Ok" THEN c.compiled ELSE <<>>, calls |-> calls]

\* Parser::compile that fetches the error record whatever the engine returned
Parser_compile_eager(symbols, h, string, c) ==
    IF \E k \in 1..Len(string) : c_string(string[k]).tag = "panic"
    THEN Compiled("panic", [t |-> symbols, h |-> h], <<>>, <<>>)
    ELSE Compiled(IF c.ok THEN "Ok" ELSE get_err(parser_error(c.ok)).tag,
                  [t |-> symbols, h |-> h, compiled |-> c.compiled], <<>>,
                  <<ParserCall("parser_compile", c.ok), ParserCall("parser_error", ~c.ok)>>)

\* Parser::compile; c is what the engine's parser_compile returns
Parser_compile(symbols, h, string, c) ==
    IF \E k \in 1..Len(string) : c_string(string[k]).tag = "panic"
    THEN Compiled("panic", [t |-> symbols, h |-> h], <<>>, <<>>)
    ELSE IF ~c.ok
    THEN Compiled(get_err(parser_error(c.ok)).tag, [t |-> symbols, h |-> h], <<>>,
                  <<ParserCall("parser_compile", c.ok), ParserCall("parser_error", ~c.ok)>>)
    ELSE Compiled("Ok", [t |-> symbols, h |-> h, compiled |-> c.compiled], <<>>,
                  <<ParserCall("parser_compile", c.ok)>>)

\* Parser::compile_resolve; c is what the engine's parser_compile_resolve returns
Parser_compile_resolve(symbols, h, string, c) ==
    IF \E k \in 1..Len(string) : c_string(string[k]).tag = "panic"
    THEN Compiled("panic", [t |-> symbols, h |-> h], <<>>, <<>>)
    ELSE IF ~c.ok
    THEN Compiled(get_err(parser_error(c.ok)).tag, c, <<>>,
                  <<ParserCall("parser_compile_resolve", c.ok), ParserCall("parser_error", ~c.ok)>>)
    ELSE Compiled("Ok", c, c.names, <<ParserCall("parser_compile_resolve", c.ok)>>)

(* ---------------- Expression ---------------- *)
NoExpr == [string |-> <<>>, compiled |-> <<>>, bound |-> Null, live |-> FALSE]

\* what a constructor returns: the Expression and its table, or the error
\* (or panic) after e and the moved-in table were dropped
Constructed(c, string, sym, p) ==
    IF c.tag = "Ok"
    THEN [ok |-> TRUE, tag |-> c.tag, t |-> p.t, h |-> c.h, out |-> p.out, calls |-> c.calls,
          e |-> [string |-> string, compiled |-> c.compiled, bound |-> sym, live |-> TRUE]]
    ELSE [ok |-> FALSE, tag |-> c.tag, t |-> NoTable, h |-> SymbolTable_drop(c.t, c.h),
          out |-> <<>>, calls |-> c.calls, e |-> NoExpr]

\* Expression::new
Expression_new(string, symbols, h) ==
    Constructed(Parser_compile(symbols, h, string, parser_compile(symbols, h, string)),
                string, symbols.sym, [t |-> symbols, out |-> <<>>])

\* the map closure of with_vars numbering the new names from 0
RECURSIVE PushVarsFromZero(_, _, _)
PushVarsFromZero(t, names, out) ==
    IF names = <<>> THEN [t |-> t, out |-> out]
    ELSE LET i == Len(out)
             ptr == get_var_ptr(t, Head(names))
         IN  PushVarsFromZero([t EXCEPT !.values = Append(@, ptr)], Tail(names),
                              Append(out, <<Head(names), i>>))

\* the map closure of with_vars: push the pointer of each new name to values
RECURSIVE PushVars(_, _, _)
PushVars(t, names, out) ==
    IF names = <<>> THEN [t |-> t, out |-> out]
    ELSE LET i == Len(t.values)
             ptr == get_var_ptr(t, Head(names))
         IN  PushVars([t EXCEPT !.values = Append(@, ptr)], Tail(names),
                      Append(out, <<Head(names), i>>))

\* Expression::with_vars: c is what Parser::compile_resolve returned
WithVars(c, string, sym) ==
    Constructed(c, string, sym, PushVars(c.t, c.names, <<>>))

with_vars(string, symbols, h) ==
    WithVars(Parser_compile_resolve(symbols, h, string, parser_compile_resolve(symbols, h, string)),
             string, symbols.sym)

Expression_value(e, h) == expression_value(e.compiled, h)

(* ---------------- Clone ---------------- *)
\* the state of the clone under construction after s.add_*(..).unwrap():
\* [t, h, ok], ok = FALSE once an unwrap failed
Unwrapped(a) == [t |-> a.t, h |-> a.h, ok |-> a.r.tag # "InvalidName"]

Failed(st) == [st EXCEPT !.ok = FALSE]

\* the three loops of SymbolTable::clone; names are enumerated in the order
\* the engine lists them
CloneVar(self, n, st, id) ==
    IF id = NoId \/ value(self, st.h, id).tag # "Some" THEN Failed(st)
    ELSE Unwrapped(add_variable(st.t, st.h, n, value(self, st.h, id).val))

RECURSIVE CloneVars(_, _, _)
CloneVars(self, names, st) ==
    IF names = <<>> \/ ~st.ok THEN st
    ELSE CloneVars(self, Tail(names),
                   CloneVar(self, Head(names), st, get_var_id(self, Head(names))))

CloneString(self, n, st, id) ==
    IF id = NoId THEN Failed(st)
    ELSE Unwrapped(add_stringvar(st.t, st.h, n, string_get(self, st.h, id)))

RECURSIVE CloneStrings(_, _, _)
CloneStrings(self, names, st) ==
    IF names = <<>> \/ ~st.ok THEN st
    ELSE CloneStrings(self, Tail(names),
                      CloneString(self, Head(names), st, get_string_id(self, Head(names))))

CloneVector(self, n, st, id) ==
    IF id = NoId THEN Failed(st)
    ELSE Unwrapped(add_vector(st.t, st.h, n, vector(self, st.h, id)))

RECURSIVE CloneVectors(_, _, _)
CloneVectors(self, names, st) ==
    IF names = <<>> \/ ~st.ok THEN st
    ELSE CloneVectors(self, Tail(names),
                      CloneVector(self, Head(names), st, get_vec_id(self, Head(names))))

\* a panic unwinds and drops the partial clone
CloneResult(st) ==
    IF st.ok THEN st ELSE [t |-> NoTable, h |-> SymbolTable_drop(st.t, st.h), ok |-> FALSE]

\* a clone that shares the cells of the original
SymbolTable_clone_shallow(self, h, vnames, snames, vecnames) ==
    [t |-> self, h |-> h, ok |-> TRUE]

\* impl Clone for SymbolTable
SymbolTable_clone(self, h, vnames, snames, vecnames) ==
    CloneResult(
      CloneVectors(self, vecnames,
        CloneStrings(self, snames,
          CloneVars(self, vnames,
            [t |-> [SymbolTable_new(h).t EXCEPT !.fstore = self.fstore],
             h |-> SymbolTable_new(h).h, ok |-> TRUE]))))

\* Expression::new(string, clone).unwrap()
NewUnwrapped(string, c) ==
    IF ~c.ok
    THEN [ok |-> FALSE, tag |-> "panic", t |-> NoTable, h |-> c.h, out |-> <<>>,
          calls |-> <<>>, e |-> NoExpr]
    ELSE Expression_new(string, c.t, c.h)

\* impl Clone for Expression
Expression_clone(e, self, h, vnames, snames, vecnames) ==
    NewUnwrapped(e.string, SymbolTable_clone(self, h, vnames, snames, vecnames))

\* the orders in which the engine may list a set of names
Orders(S) == {s \in [1..Cardinality(S) -> S] : \A i, j \in 1..Cardinality(S) : s[i] = s[j] => i = j}

(* ---------------- the state machine ---------------- *)
\* ret: the last call and what it returned; ids / hist: history of the calls
\* (IDs handed out since the last clear of the kind, values of the constants)
MkRet(op, name, id, r, out) ==
    [op |-> op, name |-> name, id |-> id, tag |-> r.tag, val |-> r.val, out |-> out,
     arg |-> NoId, bytes |-> <<>>, calls |-> <<>>]

NoIds == [k \in Kinds |-> [n \in ValidNames |-> NoId]]

Init ==
    /\ tab = SymbolTable_new(EmptyHeap).t
    /\ heap = SymbolTable_new(EmptyHeap).h
    /\ phase = "table"
    /\ expr = NoExpr
    /\ ret = MkRet("new", "", NoId, Res("unit", NoId), <<>>)
    /\ ids = NoIds
    /\ hist = [cleared |-> FALSE, resolved |-> FALSE, added |-> [k \in Kinds |-> 0],
               constVal |-> [n \in ValidNames |-> NoId]]
    /\ tab2 = NoTable
    /\ expr2 = NoExpr
    /\ ops = 0

Running == phase \in {"table", "expr"} /\ ops < MaxOps

\* the common part of a call on the table: a is [t, h, r]
Call(a, op, name, id, arg, bytes) ==
    /\ tab' = a.t
    /\ heap' = a.h
    /\ ret' = [MkRet(op, name, id, a.r, <<>>) EXCEPT !.arg = arg, !.bytes = bytes]
    /\ phase' = IF a.r.tag = "panic" THEN "panic" ELSE phase
    /\ ops' = ops + 1
    /\ UNCHANGED <<expr, tab2, expr2>>

Issue(kind, name, r) ==
    /\ ids' = IF r.tag = "Some" THEN [ids EXCEPT ![kind][name] = r.val] ELSE ids
    /\ hist' = IF r.tag = "Some" THEN [hist EXCEPT !.added[kind] = @ + 1] ELSE hist

DoAddConstant(n, v) ==
    /\ Running
    /\ LET a == add_constant(tab, heap, n, v)
       IN  /\ Call(a, "add_constant", n, NoId, v, <<>>)
           /\ hist' = IF a.r.tag = "true" THEN [hist EXCEPT !.constVal[n] = v] ELSE hist
    /\ UNCHANGED ids

DoAddVariable(n, v) ==
    /\ Running
    /\ Len(tab.values) < MaxSlots
    /\ LET a == add_variable(tab, heap, n, v)
       IN  Call(a, "add_variable", n, NoId, v, <<>>) /\ Issue("var", n, a.r)

DoAddStringvar(n, s) ==
    /\ Running
    /\ Len(tab.strings) < MaxSlots
    /\ LET a == add_stringvar(tab, heap, n, s)
       IN  Call(a, "add_stringvar", n, NoId, NoId, s) /\ Issue("str", n, a.r)

DoAddVector(n, v) ==
    /\ Running
    /\ Len(tab.vectors) < MaxSlots
    /\ LET a == add_vector(tab, heap, n, v)
       IN  Call(a, "add_vector", n, NoId, NoId, v) /\ Issue("vec", n, a.r)

DoAddFunc(n) ==
    /\ Running
    /\ Call(add_func(tab, heap, n), "add_func", n, NoId, NoId, <<>>)
    /\ UNCHANGED <<ids, hist>>

DoSetValue(i, v) ==
    /\ Running
    /\ Call(set_value(tab, heap, i, v), "set_value", "", i, v, <<>>)
    /\ UNCHANGED <<ids, hist>>

DoSetString(i, s) ==
    /\ Running
    /\ Call(set_string(tab, heap, i, s), "set_string", "", i, NoId, s)
    /\ UNCHANGED <<ids, hist>>

DoWriteVector(i, k, v) ==
    /\ Running
    /\ Call(write_vector(tab, heap, i, k, v), "mut_vector", "", i, v, <<>>)
    /\ UNCHANGED <<ids, hist>>

DoClearVariables ==
    /\ Running
    /\ Call(clear_variables(tab, heap), "clear_variables", "", NoId, NoId, <<>>)
    /\ ids' = [ids EXCEPT !["var"] = [n \in ValidNames |-> NoId]]
    /\ hist' = [hist EXCEPT !.cleared = TRUE, !.constVal = [n \in ValidNames |-> NoId]]

DoClearStrings ==
    /\ Running
    /\ Call(clear_strings(tab, heap), "clear_strings", "", NoId, NoId, <<>>)
    /\ ids' = [ids EXCEPT !["str"] = [n \in ValidNames |-> NoId]]
    /\ hist' = [hist EXCEPT !.cleared = TRUE]

DoClearVectors ==
    /\ Running
    /\ Call(clear_vectors(tab, heap), "clear_vectors", "", NoId, NoId, <<>>)
    /\ ids' = [ids EXCEPT !["vec"] = [n \in ValidNames |-> NoId]]
    /\ hist' = [hist EXCEPT !.cleared = TRUE]

\* the (name, id) pairs with_vars returned are IDs handed out
IssueAll(out) ==
    [ids EXCEPT !["var"] =
       [n \in ValidNames |->
          IF \E k \in 1..Len(out) : out[k][1] = n
          THEN out[CHOOSE k \in 1..Len(out) : out[k][1] = n][2]
          ELSE @[n]]]

\* Expression::new / with_vars: the caller's table is moved in
Construct(c, op) ==
    /\ tab' = c.t
    /\ heap' = c.h
    /\ expr' = c.e
    /\ phase' = IF c.ok THEN "expr" ELSE IF c.tag = "panic" THEN "panic" ELSE "error"
    /\ ret' = [MkRet(op, "", NoId, Res(c.tag, NoId), c.out) EXCEPT !.calls = c.calls]
    /\ ids' = IF c.ok THEN IssueAll(c.out) ELSE NoIds
    /\ ops' = ops + 1
    /\ UNCHANGED <<tab2, expr2>>

DoExpressionNew(text) ==
    /\ Running /\ phase = "table"
    /\ Construct(Expression_new(text, tab, heap), "new_expr")
    /\ UNCHANGED hist

DoExpressionWithVars(text) ==
    /\ Running /\ phase = "table"
    /\ Len(tab.values) + Len(text) <= MaxSlots + 1
    /\ Construct(with_vars(text, tab, heap), "with_vars")
    /\ hist' = [hist EXCEPT !.resolved = TRUE]

\* Expression::value; reading a released cell may crash or yield any value
DoValue ==
    /\ Running /\ phase = "expr"
    /\ LET v == Expression_value(expr, heap)
       IN  \/ /\ v # Undef
              /\ ret' = MkRet("value", "", NoId, Res("Some", v), <<>>)
              /\ phase' = phase
           \/ /\ v = Undef
              /\ \E u \in Vals : ret' = MkRet("value", "", NoId, Res("undefined", u), <<>>)
              /\ phase' = phase
           \/ /\ v = Undef
              /\ ret' = MkRet("value", "", NoId, Res("crash", NoId), <<>>)
              /\ phase' = "panic"
    /\ ops' = ops + 1
    /\ UNCHANGED <<tab, heap, expr, ids, hist, tab2, expr2>>

\* *e.symbols() = SymbolTable::new(): the caller assigns through the mutable
\* reference; the table the Expression owned is dropped
DoReplaceSymbols ==
    /\ Running /\ phase = "expr"
    /\ tab' = SymbolTable_new(heap).t
    /\ heap' = SymbolTable_drop(tab, SymbolTable_new(heap).h)
    /\ ret' = MkRet("symbols", "", NoId, Res("unit", NoId), <<>>)
    /\ ids' = NoIds
    /\ hist' = [hist EXCEPT !.cleared = TRUE, !.constVal = [n \in ValidNames |-> NoId]]
    /\ ops' = ops + 1
    /\ UNCHANGED <<phase, expr, tab2, expr2>>

\* the clone c = [t, h, ok] (and the clone's compiled form e) is handed to
\* the caller, or the call panicked
Cloned(c, e, op, calls) ==
    /\ tab2' = c.t
    /\ expr2' = e
    /\ heap' = c.h
    /\ phase' = IF c.ok THEN phase ELSE "panic"
    /\ ret' = [MkRet(op, "", NoId, Res(IF c.ok THEN "Ok" ELSE "panic", NoId), <<>>)
                 EXCEPT !.calls = calls]

ClonedExpression(c) == Cloned(c, c.e, "expr_clone", c.calls)

\* SymbolTable::clone; the previous clone, if any, is dropped first
DoCloneTable ==
    /\ Running
    /\ \E vn \in Orders(symbol_table_get_variable_list(tab)), sn \in Orders(symbol_table_get_stringvar_list(tab)),
          vecn \in Orders(symbol_table_get_vector_list(tab)) :
         Cloned(SymbolTable_clone(tab, SymbolTable_drop(tab2, heap), vn, sn, vecn), NoExpr, "clone", <<>>)
    /\ ops' = ops + 1
    /\ UNCHANGED <<tab, expr, ids, hist>>

\* Expression::clone
DoCloneExpression ==
    /\ Running /\ phase = "expr"
    /\ \E vn \in Orders(symbol_table_get_variable_list(tab)), sn \in Orders(symbol_table_get_stringvar_list(tab)),
          vecn \in Orders(symbol_table_get_vector_list(tab)) :
         ClonedExpression(Expression_clone(expr, tab, SymbolTable_drop(tab2, heap), vn, sn, vecn))
    /\ ops' = ops + 1
    /\ UNCHANGED <<tab, expr, ids, hist>>

\* the same calls made on the clone (t2.set_value(..), e2.symbols().clear_..)
CallOnClone(a, op, name, id, arg, bytes) ==
    /\ tab2' = a.t
    /\ heap' = a.h
    /\ ret' = [MkRet(op, name, id, a.r, <<>>) EXCEPT !.arg = arg, !.bytes = bytes]
    /\ phase' = IF a.r.tag = "panic" THEN "panic" ELSE phase
    /\ ops' = ops + 1
    /\ UNCHANGED <<tab, expr, expr2, ids, hist>>

HasClone == Running /\ tab2.sym # Null

DoAddVariableOnClone(n, v) ==
    /\ HasClone
    /\ Len(tab2.values) < MaxSlots
    /\ CallOnClone(add_variable(tab2, heap, n, v), "t2.add_variable", n, NoId, v, <<>>)

DoSetValueOnClone(i, v) ==
    /\ HasClone
    /\ CallOnClone(set_value(tab2, heap, i, v), "t2.set_value", "", i, v, <<>>)

DoSetStringOnClone(i, s) ==
    /\ HasClone
    /\ CallOnClone(set_string(tab2, heap, i, s), "t2.set_string", "", i, NoId, s)

DoWriteVectorOnClone(i, k, v) ==
    /\ HasClone
    /\ CallOnClone(write_vector(tab2, heap, i, k, v), "t2.mut_vector", "", i, v, <<>>)

DoClearVariablesOnClone ==
    /\ HasClone
    /\ CallOnClone(clear_variables(tab2, heap), "t2.clear_variables", "", NoId, NoId, <<>>)

DoClearStringsOnClone ==
    /\ HasClone
    /\ CallOnClone(clear_strings(tab2, heap), "t2.clear_strings", "", NoId, NoId, <<>>)

DoClearVectorsOnClone ==
    /\ HasClone
    /\ CallOnClone(clear_vectors(tab2, heap), "t2.clear_vectors", "", NoId, NoId, <<>>)

Next ==
    \/ \E n \in AllNames, v \in InitVals : DoAddVariable(n, v)
    \/ \E n \in ConstNames, v \in InitVals : DoAddConstant(n, v)
    \/ \E n \in AllNames, s \in InitStrs : DoAddStringvar(n, s)
    \/ \E n \in Names, v \in VecInputs : DoAddVector(n, v)
    \/ \E n \in FuncNames : DoAddFunc(n)
    \/ \E i \in 0..Len(tab.values), v \in Vals : DoSetValue(i, v)
    \/ \E i \in 0..(Len(tab.strings) - 1), s \in StrInputs : DoSetString(i, s)
    \/ \E i \in 0..(Len(tab.vectors) - 1), v \in Vals : DoWriteVector(i, 0, v)
    \/ DoClearVariables
    \/ DoClearStrings
    \/ DoClearVectors
    \/ \E text \in Texts : DoExpressionNew(text)
    \/ \E text \in Texts : DoExpressionWithVars(text)
    \/ DoValue
    \/ DoReplaceSymbols
    \/ DoCloneTable
    \/ DoCloneExpression
    \/ \E n \in ValidNames, v \in InitVals : DoAddVariableOnClone(n, v)
    \/ \E i \in 0..(Len(tab2.values) - 1), v \in CloneVals : DoSetValueOnClone(i, v)
    \/ \E i \in 0..(Len(tab2.strings) - 1), s \in CloneStrs : DoSetStringOnClone(i, s)
    \/ \E i \in 0..(Len(tab2.vectors) - 1), v \in CloneVals : DoWriteVectorOnClone(i, 0, v)
    \/ DoClearVariablesOnClone
    \/ DoClearStringsOnClone
    \/ DoClearVectorsOnClone

Spec == Init /\ [][Next]_vars

(* ---------------- properties ---------------- *)
AddOps == {"add_constant", "add_variable", "add_stringvar", "add_vector", "add_func"}

\* the IDs of a kind handed out since the last clear of that kind
Issued(kind) == {ids[kind][n] : n \in ValidNames} \ {NoId}

\* C1: in a compiled Expression, for every name n of its text and every
\* variable or string ID issued for n, the slot of that ID holds the very
\* cell the compiled form reads for n (so a set through the ID is what the
\* next value() reads).
C1_SameCell ==
    phase = "expr" =>
      \A k \in 1..Len(expr.string) :
        LET n == expr.string[k] IN
          /\ ids["var"][n] # NoId =>
               expr.compiled[k] = [kind |-> "var", at |-> mut_value(tab, ids["var"][n]).val]
          /\ ids["str"][n] # NoId =>
               expr.compiled[k] = [kind |-> "str", at |-> mut_string(tab, ids["str"][n]).val]

\* the identifiers of text that t does not know, each once, in order of
\* first occurrence
RECURSIVE FirstNew(_, _, _)
FirstNew(t, toks, seen) ==
    IF toks = <<>> THEN <<>>
    ELSE IF Head(toks) \in seen \/ symbol_table_symbol_exists(t, Head(toks))
         THEN FirstNew(t, Tail(toks), seen)
         ELSE <<Head(toks)>> \o FirstNew(t, Tail(toks), seen \cup {Head(toks)})

\* C2: a successful with_vars returns exactly the identifiers of the text
\* that were not in the table, each once, in first-occurrence order, each of
\* value 0, with the ID under which value(id) is the name's cell and which
\* get_var_id(name) returns; the IDs continue the table's ID sequence (0,1,..
\* for an empty table).
C2_WithVars ==
    [][(ret'.op = "with_vars" /\ ret'.tag = "Ok") =>
         LET new == FirstNew(tab, expr'.string, {})
             out == ret'.out
         IN  /\ Len(out) = Len(new)
             /\ \A k \in 1..Len(out) :
                  /\ out[k][1] = new[k]
                  /\ out[k][2] = Len(tab.values) + k - 1
                  /\ value(tab', heap', out[k][2]) = Res("Some", 0)
                  /\ mut_value(tab', out[k][2]) = Res("Some", tab'.vstore[new[k]])
                  /\ get_var_id(tab', new[k]) = out[k][2]]_vars

C2_Witness ==
    /\ ret.op = "with_vars" /\ ret.tag = "Ok"
    /\ ret.out = <<<<"b", 0>>, <<"a", 1>>>>
    /\ value(tab, heap, 0) = Res("Some", 0) /\ get_var_id(tab, "a") = 1

\* C3: set_value(i, v) on an ID i that add_variable returned (and no
\* clear_variables revoked) returns true, and value(i) is then v, whatever
\* adds (successful, duplicate, rejected) came before.
C3_RoundTrip ==
    [][(ret'.op = "set_value" /\ ret'.id \in Issued("var")) =>
         /\ ret'.tag = "true"
         /\ value(tab', heap', ret'.id) = Res("Some", ret'.arg)]_vars

C3_Witness ==
    /\ ret.op = "set_value" /\ ret.tag = "true"
    /\ ret.id = 2 /\ ret.id \in Issued("var") /\ ret.arg = 0
    /\ value(tab, heap, 2) = Res("Some", 0)

\* C4: an add of a name that already denotes a symbol reports "not added"
\* and leaves the table unchanged: stores, values / strings / vectors and the
\* allocated cells.
C4_RejectedAddNoChange ==
    [][(ret'.op \in AddOps /\ symbol_table_symbol_exists(tab, ret'.name)) =>
         /\ ret'.tag \in {"None", "false"}
         /\ tab'.values = tab.values
         /\ tab'.strings = tab.strings
         /\ tab'.vectors = tab.vectors
         /\ tab'.vstore = tab.vstore /\ tab'.sstore = tab.sstore
         /\ tab'.vecstore = tab.vecstore /\ tab'.fstore = tab.fstore
         /\ heap'.num = heap.num /\ heap'.str = heap.str /\ heap'.vec = heap.vec]_vars

\* C5: on a fresh table with only add and set calls so far, the n-th
\* add_variable / add_stringvar / add_vector that returns an ID returns n-1.
C5_SequentialIds ==
    (~hist.cleared /\ ~hist.resolved /\ ret.tag = "Some") =>
       /\ ret.op = "add_variable" => ret.val = hist.added["var"] - 1
       /\ ret.op = "add_stringvar" => ret.val = hist.added["str"] - 1
       /\ ret.op = "add_vector" => ret.val = hist.added["vec"] - 1

\* C6: an ID that no add handed out is absent: value / mut_value give None
\* (no panic, no cell), likewise string / mut_string and vector / mut_vector;
\* set_value on it returns false and changes no cell.
C6_UnknownIdAbsent ==
    /\ \A id \in 0..MaxSlots :
         /\ id \notin Issued("var") => mut_value(tab, id) = Res("None", NoId)
         /\ id \notin Issued("str") => mut_string(tab, id) = Res("None", NoId)
         /\ id \notin Issued("vec") => mut_vector(tab, id) = Res("None", NoId)
    /\ (ret.op = "set_value" /\ ret.id \notin Issued("var")) => ret.tag = "false"

\* C7: while no clear_variables is called, the value bound to a name
\* registered by add_constant(name, c) stays c.
C7_ConstantImmutable ==
    \A n \in ValidNames :
       (hist.constVal[n] # NoId /\ is_constant_node(tab, n)) =>
          heap.num[symbol_table_variable_ref(tab, n)] = hist.constVal[n]

\* C8: an ID handed out for a name stays the ID of that name's cell through
\* every later add of any kind (until the kind is cleared): the slot of the
\* ID is the cell of the name, the lookup by name returns the ID, adds leave
\* the cell's content alone, and a duplicate add returns "already present".
C8_IdStable ==
    [][(ret'.op \in AddOps \/ (ret'.op = "with_vars" /\ ret'.tag = "Ok")) =>
         /\ \A n \in ValidNames :
              /\ ids["var"][n] # NoId =>
                   /\ mut_value(tab', ids["var"][n]) = Res("Some", symbol_table_variable_ref(tab, n))
                   /\ get_var_id(tab', n) = ids["var"][n]
                   /\ heap'.num[symbol_table_variable_ref(tab, n)] = heap.num[symbol_table_variable_ref(tab, n)]
              /\ ids["str"][n] # NoId =>
                   /\ mut_string(tab', ids["str"][n]) = Res("Some", symbol_table_stringvar_ref(tab, n))
                   /\ get_string_id(tab', n) = ids["str"][n]
                   /\ heap'.str[symbol_table_stringvar_ref(tab, n)] = heap.str[symbol_table_stringvar_ref(tab, n)]
              /\ ids["vec"][n] # NoId =>
                   /\ mut_vector(tab', ids["vec"][n]) = Res("Some", symbol_table_vector_ptr(tab, n))
                   /\ get_vec_id(tab', n) = ids["vec"][n]
                   /\ heap'.vec[symbol_table_vector_ptr(tab, n)] = heap.vec[symbol_table_vector_ptr(tab, n)]
         /\ (ret'.op \in AddOps /\ ret'.name \in ValidNames
               /\ \E k \in Kinds : ids[k][ret'.name] # NoId) =>
              /\ ret'.tag \in {"None", "false"}
              /\ ids' = ids]_vars

C8_Witness ==
    /\ ret.op = "add_variable" /\ ret.name = "a" /\ ret.tag = "None"
    /\ ids["var"]["a"] = 0 /\ ids["var"]["b"] = 1
    /\ get_var_id(tab, "a") = 0 /\ get_var_id(tab, "b") = 1
    /\ Len(tab.values) = 3

\* C9: cloning a compiled Expression succeeds in every state reachable
\* through symbols() (set, add, clear), and the clone evaluates to what the
\* original does; stated for tables that hold no constant.
C9_CloneCompiles ==
    (ret.op = "expr_clone" /\ tab.consts = {}) =>
       /\ ret.tag = "Ok"
       /\ Expression_value(expr2, heap) = Expression_value(expr, heap)

\* C10: on a table built by adds, with_vars and sets, clone() completes and
\* binds every variable, string and vector name of the original to a fresh
\* cell of equal content; stated for tables that hold no constant.
C10_CloneDeep ==
    (ret.op = "clone" /\ ~hist.cleared /\ tab.consts = {}) =>
       /\ ret.tag = "Ok"
       /\ \A n \in ValidNames :
            /\ symbol_table_variable_ref(tab, n) # Null =>
                 /\ symbol_table_variable_ref(tab2, n) \notin {Null, symbol_table_variable_ref(tab, n)}
                 /\ heap.num[symbol_table_variable_ref(tab2, n)] = heap.num[symbol_table_variable_ref(tab, n)]
            /\ symbol_table_stringvar_ref(tab, n) # Null =>
                 /\ symbol_table_stringvar_ref(tab2, n) \notin {Null, symbol_table_stringvar_ref(tab, n)}
                 /\ heap.str[symbol_table_stringvar_ref(tab2, n)] = heap.str[symbol_table_stringvar_ref(tab, n)]
            /\ symbol_table_vector_ptr(tab, n) # Null =>
                 /\ symbol_table_vector_ptr(tab2, n) \notin {Null, symbol_table_vector_ptr(tab, n)}
                 /\ heap.vec[symbol_table_vector_ptr(tab2, n)] = heap.vec[symbol_table_vector_ptr(tab, n)]

\* what a caller can read of table t: the content of the cell of every name
\* and of every slot (<<>> where there is no cell)
CellOf(f, p) == IF p \in DOMAIN f THEN <<f[p]>> ELSE <<>>

Contents(t, h) ==
    [var |-> [n \in ValidNames |-> CellOf(h.num, t.vstore[n])],
     str |-> [n \in ValidNames |-> CellOf(h.str, t.sstore[n])],
     vec |-> [n \in ValidNames |-> CellOf(h.vec, t.vecstore[n])],
     values |-> [k \in 1..Len(t.values) |-> CellOf(h.num, t.values[k])],
     strings |-> [k \in 1..Len(t.strings) |-> CellOf(h.str, t.strings[k])],
     vectors |-> [k \in 1..Len(t.vectors) |-> CellOf(h.vec, t.vectors[k])]]

OnCloneOps ==
    {"t2.add_variable", "t2.set_value", "t2.set_string", "t2.mut_vector",
     "t2.clear_variables", "t2.clear_strings", "t2.clear_vectors"}

OnTableOps ==
    AddOps \cup {"set_value", "set_string", "mut_vector",
                 "clear_variables", "clear_strings", "clear_vectors"}

\* C11: after t2 = t.clone(), a set_value / set_string / mut_vector write /
\* add / clear on t2 leaves t and the content of every variable, string and
\* vector of t unchanged, and the same calls on t leave t2 and its contents
\* unchanged.
C11_CloneIndependent ==
    [][/\ ret'.op \in OnCloneOps =>
            /\ tab' = tab
            /\ Contents(tab', heap') = Contents(tab, heap)
       /\ (ret'.op \in OnTableOps /\ tab2.sym # Null) =>
            /\ tab2' = tab2
            /\ Contents(tab2', heap') = Contents(tab2, heap)]_vars

\* t2.set_value changed a of the clone, a of the original kept its value
C11_Witness ==
    /\ ret.op = "t2.set_value" /\ ret.tag = "true" /\ ret.arg = 0
    /\ Contents(tab2, heap).var["a"] = <<0>>
    /\ Contents(tab, heap).var["a"] = <<1>>

\* C12: a string reads back as the bytes it was given, whatever the bytes:
\* after add_stringvar(name, b0) returned ID i, string(i).get() = b0, and
\* set_string(i, b) on an issued ID returns true and string(i).get() = b.
C12_StringRoundTrip ==
    /\ (ret.op = "add_stringvar" /\ ret.tag = "Some") =>
          string_get(tab, heap, ret.val) = ret.bytes
    /\ (ret.op = "set_string" /\ ret.id \in Issued("str")) =>
          /\ ret.tag = "true"
          /\ string_get(tab, heap, ret.id) = ret.bytes

\* C13: right after clear_variables every variable ID is not found (value
\* and mut_value give None, set_value returns false), variable_count() is 0
\* and no name has a variable ID, while the strings and vectors keep their
\* bindings, IDs and contents; likewise for clear_strings and clear_vectors.
C13_BulkClear ==
    [][/\ ret'.op = "clear_variables" =>
            /\ \A i \in 0..MaxSlots :
                 /\ mut_value(tab', i) = Res("None", NoId)
                 /\ value(tab', heap', i) = Res("None", NoId)
                 /\ \A v \in Vals : set_value(tab', heap', i, v).r = Res("false", NoId)
            /\ variable_count(tab') = 0
            /\ \A n \in ValidNames : get_var_id(tab', n) = NoId
            /\ tab'.strings = tab.strings /\ tab'.sstore = tab.sstore
            /\ tab'.vectors = tab.vectors /\ tab'.vecstore = tab.vecstore
            /\ heap'.str = heap.str /\ heap'.vec = heap.vec
            /\ \A n \in ValidNames :
                 /\ get_string_id(tab', n) = get_string_id(tab, n)
                 /\ get_vec_id(tab', n) = get_vec_id(tab, n)
       /\ ret'.op = "clear_strings" =>
            /\ \A i \in 0..MaxSlots :
                 /\ mut_string(tab', i) = Res("None", NoId)
                 /\ \A b \in StrInputs : set_string(tab', heap', i, b).r = Res("false", NoId)
            /\ stringvar_count(tab') = 0
            /\ \A n \in ValidNames : get_string_id(tab', n) = NoId
            /\ tab'.values = tab.values /\ tab'.vstore = tab.vstore
            /\ tab'.vectors = tab.vectors /\ tab'.vecstore = tab.vecstore
            /\ heap'.num = heap.num /\ heap'.vec = heap.vec
            /\ \A n \in ValidNames :
                 /\ get_var_id(tab', n) = get_var_id(tab, n)
                 /\ get_vec_id(tab', n) = get_vec_id(tab, n)
       /\ ret'.op = "clear_vectors" =>
            /\ \A i \in 0..MaxSlots : mut_vector(tab', i) = Res("None", NoId)
            /\ vector_count(tab') = 0
            /\ \A n \in ValidNames : get_vec_id(tab', n) = NoId
            /\ tab'.values = tab.values /\ tab'.vstore = tab.vstore
            /\ tab'.strings = tab.strings /\ tab'.sstore = tab.sstore
            /\ heap'.num = heap.num /\ heap'.str = heap.str
            /\ \A n \in ValidNames :
                 /\ get_var_id(tab', n) = get_var_id(tab, n)
                 /\ get_string_id(tab', n) = get_string_id(tab, n)]_vars

\* clear_variables on a table that had issued a variable ID and holds a string
C13_Witness ==
    /\ ret.op = "clear_variables"
    /\ hist.added["var"] > 0 /\ hist.added["str"] > 0
    /\ variable_count(tab) = 0 /\ value(tab, heap, 0) = Res("None", NoId)
    /\ get_string_id(tab, "b") = 0 /\ heap.str[mut_string(tab, 0).val] = <<1, 0, 1>>

\* the cells table t owns
CellsOf(t) ==
    {t.vstore[n] : n \in ValidNames} \cup Range(t.strings) \cup Range(t.vectors)

Allocated(h) == DOMAIN h.num \cup DOMAIN h.str \cup DOMAIN h.vec

\* C14: Expression::new and with_vars return either an Expression that
\* compiled, is bound to the table it owns and can be evaluated, or a
\* ParseError value, never an abort; on failure the compiled form and the
\* moved-in table with all its cells are released.
C14_AllOrNothing ==
    [][ret'.op \in {"new_expr", "with_vars"} =>
         /\ ret'.tag \in {"Ok", "ParseError"}
         /\ ret'.tag = "Ok" =>
              /\ phase' = "expr" /\ expr'.live
              /\ expr'.bound = tab'.sym
              /\ Expression_value(expr', heap') # Undef
         /\ ret'.tag = "ParseError" =>
              /\ phase' = "error" /\ expr' = NoExpr /\ tab' = NoTable
              /\ CellsOf(tab) \cap Allocated(heap') = {}]_vars

\* C15: an add has one of three outcomes: added (the engine took the
\* name, which was free), already present (the name denoted a symbol), or
\* InvalidName (rejected, and no symbol of the name exists); on InvalidName
\* the table is unchanged: values / strings / vectors, every binding and
\* the allocated cells.
C15_AddOutcomes ==
    [][ret'.op \in AddOps =>
         /\ ret'.tag \in {"Some", "true", "None", "false", "InvalidName"}
         /\ ret'.tag \in {"Some", "true"} =>
              ~symbol_exists(tab, ret'.name) /\ symbol_exists(tab', ret'.name)
         /\ ret'.tag \in {"None", "false"} =>
              symbol_exists(tab, ret'.name) /\ symbol_exists(tab', ret'.name)
         /\ ret'.tag = "InvalidName" =>
              /\ ~symbol_exists(tab', ret'.name)
              /\ tab'.values = tab.values /\ tab'.strings = tab.strings
              /\ tab'.vectors = tab.vectors
              /\ tab'.vstore = tab.vstore /\ tab'.sstore = tab.sstore
              /\ tab'.vecstore = tab.vecstore /\ tab'.fstore = tab.fstore
              /\ tab'.consts = tab.consts
              /\ Allocated(heap') = Allocated(heap)]_vars

\* C20: a Parser fetches the error record (parser_error, in get_err) only
\* directly after its compile or compile_resolve call returned false, never
\* after one that returned true; the fetched record then holds an error,
\* so get_err does not panic.
C20_GetErrAfterFailure ==
    \A k \in 1..Len(ret.calls) :
       ret.calls[k].call = "parser_error" =>
          /\ k > 1
          /\ ret.calls[k - 1].call \in {"parser_compile", "parser_compile_resolve"}
          /\ ret.calls[k - 1].rv = FALSE
          /\ ret.calls[k].rv = TRUE

\* a compile that failed, followed by the fetch of its error
C20_Witness ==
    /\ ret.op = "new_expr" /\ ret.tag = "ParseError"
    /\ ret.calls = <<ParserCall("parser_compile", FALSE), ParserCall("parser_error", TRUE)>>

\* C16: the table a live Expression owns in its symbols field is the table
\* its compiled form is registered with, whatever the caller does,
\* including through the mutable reference symbols() returns.
C16_OwnedIsBound ==
    /\ phase = "expr" => expr.bound = tab.sym
    /\ expr2.live => expr2.bound = tab2.sym

\* C17: value() changes no table, no cell and no ID, and a value() that
\* directly follows a value() returns the same result.
C17_ValuePure ==
    [][/\ ret'.op = "value" =>
            /\ tab' = tab /\ tab2' = tab2 /\ ids' = ids
            /\ heap' = heap
       /\ (ret.op = "value" /\ ret'.op = "value") =>
            /\ ret'.tag = ret.tag
            /\ ret'.val = ret.val]_vars

\* C18: after a clone that completed, every variable, string and vector
\* name has in the clone the ID it has in the original.
C18_CloneKeepsIds ==
    (ret.op \in {"clone", "expr_clone"} /\ ret.tag = "Ok") =>
       \A n \in ValidNames :
          /\ get_var_id(tab2, n) = get_var_id(tab, n)
          /\ get_string_id(tab2, n) = get_string_id(tab, n)
          /\ get_vec_id(tab2, n) = get_vec_id(tab, n)

\* C19: every cell the compiled form of a live Expression refers to is
\* allocated, so no value() reads a released cell.
C19_NoUseAfterRelease ==
    /\ phase = "expr" =>
         \A k \in 1..Len(expr.compiled) : RefLive(heap, expr.compiled[k])
    /\ expr2.live =>
         \A k \in 1..Len(expr2.compiled) : RefLive(heap, expr2.compiled[k])

====
